---- MODULE Spec2Model ----
(***************************************************************************)
(* Incremental ingestion of the LeetCode discuss feed:                     *)
(*   - fetchArticlesAfterTime / fetchDiscussArticlesWithSkip               *)
(*     (leetcode_client.go): offset pagination with a cutoff time;         *)
(*   - readLastProcessedTimestamp / writeLastProcessedTimestamp            *)
(*     (utils part of main.go): the checkpoint file.                       *)
(*                                                                         *)
(* Time.  An instant is a natural number of half-seconds, so that          *)
(* instants with a sub-second part exist.  Instant 0 is Go's zero time,    *)
(* time.Time{}; articles are created a second or more after it.  The       *)
(* date, hour and minute fields of an RFC3339 text are the same for every  *)
(* instant of the model and are left out: the text of an instant is its    *)
(* two-digit seconds field, the fraction ".5" when it has one, and the     *)
(* zone "Z".                                                               *)
(***************************************************************************)
EXTENDS Integers, Sequences, FiniteSets, TLC

\* ---------------------------------------------------------------- bounds
\* The largest instant of the model, in half-seconds.
MaxTick == 4
\* The longest feed, counting the articles published while the model runs.
MaxFeed == 4
\* The page size.  leetcode_client.go:55 sets batchSize := 100; the model
\* keeps the code's name and scales the value down so that feeds of
\* several pages can be enumerated.
batchSize == 2
\* How many scheduled runs the model follows.
MaxRuns == 2

Ticks == 0..MaxTick

\* The whole seconds of an instant, and whether it has a half-second more.
SecondsOf(t) == t \div 2

HasFraction(t) == t % 2 = 1

Instant(sec, half) == 2 * sec + (IF half THEN 1 ELSE 0)

Min(a, b) == IF a < b THEN a ELSE b

\* ------------------------------------------------------- RFC3339 texts
Digits == <<"0", "1", "2", "3", "4", "5", "6", "7", "8", "9">>

IsDigit(c) == \E i \in 1..Len(Digits) : Digits[i] = c

DigitVal(c) == (CHOOSE i \in 1..Len(Digits) : Digits[i] = c) - 1

\* time.Time{}: the zero time.
ZeroTime == 0

\* t.IsZero()
IsZero(t) == t = ZeroTime

\* t.Format(time.RFC3339): the layout "2006-01-02T15:04:05Z07:00" has no
\* fractional-second field, so the sub-second part of t is not written.
FormatRFC3339(t) ==
    LET s == SecondsOf(t)
    IN  <<Digits[(s \div 10) + 1], Digits[(s % 10) + 1], "Z">>

\* time.Parse(time.RFC3339, s): two seconds digits, then optionally a
\* fractional second ("when parsing (only), the input may contain a
\* fractional second field immediately after the seconds field, even if
\* the layout doesn't signify its presence"), then the zone; anything else
\* is an error.  The result is [ok, t].  (The only fraction the model's
\* texts carry is ".5".)
ParseFail == [ok |-> FALSE, t |-> ZeroTime]

ParseRFC3339(s) ==
    IF Len(s) = 3 /\ IsDigit(s[1]) /\ IsDigit(s[2]) /\ s[3] = "Z"
    THEN [ok |-> TRUE,
          t  |-> Instant(DigitVal(s[1]) * 10 + DigitVal(s[2]), FALSE)]
    ELSE IF /\ Len(s) = 5 /\ IsDigit(s[1]) /\ IsDigit(s[2]) /\ s[3] = "."
            /\ s[4] = "5" /\ s[5] = "Z"
    THEN [ok |-> TRUE,
          t  |-> Instant(DigitVal(s[1]) * 10 + DigitVal(s[2]), TRUE)]
    ELSE ParseFail

\* articleTime.After(cutoffTime); AfterOrEqual is the slip !Before.
AfterOrEqual(t, u) == t >= u

After(t, u) == t > u

\* ------------------------------------------------------------ the feed
\* The createdAt text the remote service sends for an instant: RFC3339
\* with the fraction when there is one.
CreatedAtOf(t) ==
    LET s == SecondsOf(t)
    IN  IF ~HasFraction(t)
        THEN <<Digits[(s \div 10) + 1], Digits[(s % 10) + 1], "Z">>
        ELSE <<Digits[(s \div 10) + 1], Digits[(s % 10) + 1], ".", "5", "Z">>

\* A createdAt text time.Parse rejects.
BadCreatedAt == <<"?">>

\* The instants articles are created at: a second or more after the zero
\* time, so that the whole seconds of a creation time are never the zero
\* time.
ArticleTicks == {t \in Ticks : SecondsOf(t) >= 1}

CreatedAtVals == {CreatedAtOf(t) : t \in ArticleTicks} \cup {BadCreatedAt}

\* The cutoffs: the zero time and the instants of articles (an instant
\* between the zero time and the first article cuts as the zero time does).
Cutoffs == {ZeroTime} \cup ArticleTicks

\* Article: the fields the fetch reads (UUID, CreatedAt).
Article(u, c) == [UUID |-> u, CreatedAt |-> c]

\* The feeds a call may start on: any order, any createdAt texts; the
\* article at position i has UUID i.
RECURSIVE SeqsUpTo(_, _)
SeqsUpTo(S, n) ==
    IF n = 0 THEN {<<>>}
    ELSE LET shorter == SeqsUpTo(S, n - 1)
         IN  shorter \cup {Append(q, x) : q \in {r \in shorter : Len(r) = n - 1}, x \in S}

Feeds == {[i \in 1..Len(q) |-> Article(i, q[i])] : q \in SeqsUpTo(CreatedAtVals, MaxFeed)}

\* The remote service's answer to (first: count, skip: skip).
Page(f, count, sk) ==
    IF sk >= Len(f) THEN <<>> ELSE SubSeq(f, sk + 1, Min(sk + count, Len(f)))

\* The errors fetchDiscussArticlesWithSkip returns (the wrapped cause left out).
FetchErrors == {"failed to send request", "unexpected status code",
                "failed to decode response"}

\* What the text of each of these errors carries besides its message: the
\* wrapped cause (%w; for a send, the *url.Error with the method and the
\* URL), or the status code (%d).  The request body, where skip is, is in
\* none of them.
ErrorCarries(e) ==
    IF e = "unexpected status code" THEN {"status code"}
    ELSE IF e = "failed to send request" THEN {"cause", "method", "url"}
    ELSE {"cause"}

VARIABLES
    feed,          \* the remote feed, newest first as the service orders it
    cutoffTime,    \* fetchArticlesAfterTime's parameter
    skip,          \* local of fetchArticlesAfterTime
    allArticles,   \* local of fetchArticlesAfterTime (the accumulator)
    batch,         \* local: the page last received
    pc,            \* "fetch": at line 62; "scan": at line 67; "done": returned
    ret,           \* the value returned: [articles, err]
    stopped,       \* why the loop ended ("" while it runs)
    requests,      \* history: the skip offsets requested, in order
    pages,         \* history: the pages received, in order
    feedAtStart    \* history: the feed when the call began

VARIABLES
    file,          \* last_processed_timestamp.txt: [exists, readable, data]
    wpc,           \* "idle", or "writing": os.WriteFile has truncated the
                   \* file and has not written yet
    pending,       \* the bytes os.WriteFile is about to write
    written,       \* history: <<T>> after a write of T in full; <<>> at
                   \* the start and once another write has begun
    prior,         \* history: the file before the last write began
    readRet,       \* what readLastProcessedTimestamp last returned: [t, err]
    torn           \* history: <<T>> after a write of T was cut short by a
                   \* crash; <<>> at the start and once a write has begun

VARIABLES
    rpc,           \* the scheduled runs: "idle" between runs, "fetching",
                   \* "saving" while the checkpoint is written
    runs,          \* how many runs have ended
    sent           \* history: per run that returned articles, their UUIDs

fetchVars == <<feed, cutoffTime, skip, allArticles, batch, pc, ret, stopped,
               requests, pages, feedAtStart>>

ckptVars == <<file, wpc, pending, written, prior, readRet, torn>>

runVars == <<rpc, runs, sent>>

vars == <<fetchVars, ckptVars, runVars>>

NoReturn == [articles |-> <<>>, err |-> "pending"]

\* ------------------------------------------- fetchArticlesAfterTime
\* Lines 53-56: the call begins.
FetchInit(c) ==
    /\ cutoffTime = c
    /\ skip = 0
    /\ allArticles = <<>>
    /\ batch = <<>>
    /\ pc = "fetch"
    /\ ret = NoReturn
    /\ stopped = ""
    /\ requests = <<>>
    /\ pages = <<>>

FetchStart(c) ==
    /\ cutoffTime' = c
    /\ skip' = 0
    /\ allArticles' = <<>>
    /\ batch' = <<>>
    /\ pc' = "fetch"
    /\ ret' = NoReturn
    /\ stopped' = ""
    /\ requests' = <<>>
    /\ pages' = <<>>
    /\ feedAtStart' = feed
    /\ UNCHANGED feed

\* Variants of the scan loop of lines 71-84 (ScanBatch below), each a slip
\* that a property of the scan must tell apart from it:
\* an unparseable createdAt leaves the loop (break for continue), ...
RECURSIVE ScanBatchStopOnBad(_, _, _, _)
ScanBatchStopOnBad(b, i, c, acc) ==
    IF i > Len(b)
    THEN [allArticles |-> acc, foundOlderArticle |-> FALSE]
    ELSE LET p == ParseRFC3339(b[i].CreatedAt)
         IN  IF ~p.ok
             THEN [allArticles |-> acc, foundOlderArticle |-> FALSE]
             ELSE IF After(p.t, c)
             THEN ScanBatchStopOnBad(b, i + 1, c, Append(acc, b[i]))
             ELSE [allArticles |-> acc, foundOlderArticle |-> TRUE]

\* ... an unparseable createdAt is taken for an older article, ...
RECURSIVE ScanBatchBadIsOlder(_, _, _, _)
ScanBatchBadIsOlder(b, i, c, acc) ==
    IF i > Len(b)
    THEN [allArticles |-> acc, foundOlderArticle |-> FALSE]
    ELSE LET p == ParseRFC3339(b[i].CreatedAt)
         IN  IF p.ok /\ After(p.t, c)
             THEN ScanBatchBadIsOlder(b, i + 1, c, Append(acc, b[i]))
             ELSE [allArticles |-> acc, foundOlderArticle |-> TRUE]

\* ... a newer article is put in front of the accumulator, ...
RECURSIVE ScanBatchPrepend(_, _, _, _)
ScanBatchPrepend(b, i, c, acc) ==
    IF i > Len(b)
    THEN [allArticles |-> acc, foundOlderArticle |-> FALSE]
    ELSE LET p == ParseRFC3339(b[i].CreatedAt)
         IN  IF ~p.ok
             THEN ScanBatchPrepend(b, i + 1, c, acc)
             ELSE IF After(p.t, c)
             THEN ScanBatchPrepend(b, i + 1, c, <<b[i]>> \o acc)
             ELSE [allArticles |-> acc, foundOlderArticle |-> TRUE]

\* ... and an older article sets the flag without leaving the loop, so
\* that the rest of the batch is scanned.
ScanBatchFullPage(b, i, c, acc) ==
    LET rest == SubSeq(b, i, Len(b))
        newer(a) == LET p == ParseRFC3339(a.CreatedAt)
                    IN  p.ok /\ After(p.t, c)
        older(a) == LET p == ParseRFC3339(a.CreatedAt)
                    IN  p.ok /\ ~After(p.t, c)
    IN  [allArticles |-> acc \o SelectSeq(rest, newer),
         foundOlderArticle |-> \E j \in 1..Len(rest) : older(rest[j])]

\* Lines 71-84: the scan of one batch from position i on, acc being
\* allArticles so far.  An unparseable createdAt is skipped; an article
\* after the cutoff is appended; the first article at or before the cutoff
\* sets foundOlderArticle and leaves the loop.
RECURSIVE ScanBatch(_, _, _, _)
ScanBatch(b, i, c, acc) ==
    IF i > Len(b)
    THEN [allArticles |-> acc, foundOlderArticle |-> FALSE]
    ELSE LET p == ParseRFC3339(b[i].CreatedAt)
         IN  IF ~p.ok
             THEN ScanBatch(b, i + 1, c, acc)
             ELSE IF After(p.t, c)
             THEN ScanBatch(b, i + 1, c, Append(acc, b[i]))
             ELSE [allArticles |-> acc, foundOlderArticle |-> TRUE]

\* Line 86: the loop ends after this batch.  The first three are slips of
\* the condition: a disjunct forgotten, or <= for <.
StopOnlyOnOlder(found, n) == found

StopOnlyOnShort(found, n) == n < batchSize

StopOnFullBatch(found, n) == found \/ n <= batchSize

StopAfterBatch(found, n) == found \/ n < batchSize

\* Line 90: skip += batchSize.  (NextSkipByOne is the slip skip++, and
\* NextSkipStay the line forgotten.)
NextSkipByOne(sk) == sk + 1

NextSkipStay(sk) == sk

NextSkip(sk) == sk + batchSize

\* Line 93: return allArticles, nil.  (ReturnErrorIfNone is the variant
\* that makes an empty result an error.)
ReturnErrorIfNone(acc) ==
    IF acc = <<>> THEN [articles |-> <<>>, err |-> "no articles found"]
    ELSE [articles |-> acc, err |-> "nil"]

ReturnArticles(acc) == [articles |-> acc, err |-> "nil"]

\* Line 64: return nil, err.  (ReturnPartial is the variant that returns
\* allArticles with the error.)
ReturnPartial(acc, e) == [articles |-> acc, err |-> e]

\* (ReturnFetchFailed is the variant that replaces the request's error by
\* one of its own.)
ReturnFetchFailed(acc, e) == [articles |-> <<>>, err |-> "failed to fetch articles"]

ReturnError(acc, e) == [articles |-> <<>>, err |-> e]

\* Line 62, the request succeeds: the service answers with the page.
FetchBatch ==
    /\ pc = "fetch"
    /\ batch' = Page(feed, batchSize, skip)
    /\ requests' = Append(requests, skip)
    /\ pages' = Append(pages, batch')
    /\ pc' = "scan"
    /\ UNCHANGED <<feed, cutoffTime, skip, allArticles, ret, stopped,
                   feedAtStart>>
    /\ UNCHANGED <<ckptVars, runVars>>

\* Lines 62-65, the request fails: return nil, err.
FetchBatchFails ==
    /\ pc = "fetch"
    /\ \E e \in FetchErrors :
         ret' = ReturnError(allArticles, e)
    /\ requests' = Append(requests, skip)
    /\ stopped' = "failed"
    /\ pc' = "done"
    /\ UNCHANGED <<feed, cutoffTime, skip, allArticles, batch, pages,
                   feedAtStart>>
    /\ UNCHANGED <<ckptVars, runVars>>

\* The variant of the loop body below that saves its progress itself: the
\* createdAt of the first article it holds goes to the checkpoint file.
HandleBatchSaving ==
    /\ pc = "scan"
    /\ IF Len(batch) = 0
       THEN /\ ret' = ReturnArticles(allArticles)
            /\ stopped' = "empty"
            /\ pc' = "done"
            /\ UNCHANGED <<allArticles, skip, file>>
       ELSE LET r == ScanBatch(batch, 1, cutoffTime, allArticles)
            IN  /\ allArticles' = r.allArticles
                /\ file' = IF r.allArticles = <<>> THEN file
                           ELSE [exists |-> TRUE, readable |-> TRUE,
                                 data |-> r.allArticles[1].CreatedAt]
                /\ IF StopAfterBatch(r.foundOlderArticle, Len(batch))
                   THEN /\ ret' = ReturnArticles(r.allArticles)
                        /\ stopped' = IF r.foundOlderArticle
                                      THEN "older" ELSE "short"
                        /\ pc' = "done"
                        /\ UNCHANGED skip
                   ELSE /\ skip' = NextSkip(skip)
                        /\ pc' = "fetch"
                        /\ UNCHANGED <<ret, stopped>>
    /\ UNCHANGED <<feed, cutoffTime, batch, requests, pages, feedAtStart>>
    /\ UNCHANGED <<wpc, pending, written, prior, readRet, torn, runVars>>

\* Lines 67-93: the batch is handled, and the loop goes on or returns.
HandleBatch ==
    /\ pc = "scan"
    /\ IF Len(batch) = 0
       THEN /\ ret' = ReturnArticles(allArticles)
            /\ stopped' = "empty"
            /\ pc' = "done"
            /\ UNCHANGED <<allArticles, skip>>
       ELSE LET r == ScanBatch(batch, 1, cutoffTime, allArticles)
            IN  /\ allArticles' = r.allArticles
                /\ IF StopAfterBatch(r.foundOlderArticle, Len(batch))
                   THEN /\ ret' = ReturnArticles(r.allArticles)
                        /\ stopped' = IF r.foundOlderArticle
                                      THEN "older" ELSE "short"
                        /\ pc' = "done"
                        /\ UNCHANGED skip
                   ELSE /\ skip' = NextSkip(skip)
                        /\ pc' = "fetch"
                        /\ UNCHANGED <<ret, stopped>>
    /\ UNCHANGED <<feed, cutoffTime, batch, requests, pages, feedAtStart>>
    /\ UNCHANGED <<ckptVars, runVars>>

\* The remote service: an article is published at the head of the feed
\* while the call runs.  Only the requests read the feed, so it is enough
\* to let publication happen ahead of a request.
Publish ==
    /\ pc = "fetch"
    /\ Len(feed) < MaxFeed
    /\ \E c \in CreatedAtVals :
         feed' = <<Article(Len(feed) + 1, c)>> \o feed
    /\ UNCHANGED <<cutoffTime, skip, allArticles, batch, pc, ret, stopped,
                   requests, pages, feedAtStart>>
    /\ UNCHANGED <<ckptVars, runVars>>

\* ------------------------------------------------ the checkpoint file
NoFile == [exists |-> FALSE, readable |-> FALSE, data |-> <<>>]

FileWith(d) == [exists |-> TRUE, readable |-> TRUE, data |-> d]

Unreadable(d) == [exists |-> TRUE, readable |-> FALSE, data |-> d]

IsSpace(c) == c \in {" ", "\n"}

\* strings.TrimSpace: leading and trailing white space removed.
RECURSIVE TrimLeft(_)
TrimLeft(s) ==
    IF s # <<>> /\ IsSpace(Head(s)) THEN TrimLeft(Tail(s)) ELSE s

RECURSIVE TrimRight(_)
TrimRight(s) ==
    IF s # <<>> /\ IsSpace(s[Len(s)])
    THEN TrimRight(SubSeq(s, 1, Len(s) - 1)) ELSE s

TrimSpace(s) == TrimRight(TrimLeft(s))

NoPendingRead == [t |-> ZeroTime, err |-> "pending"]

\* readLastProcessedTimestamp (main.go:343-364) on the file f.
\* (ReadIgnoringParseError is the variant that drops the parse error.)
ReadIgnoringParseError(f) ==
    IF ~f.exists
    THEN [t |-> ZeroTime, err |-> "nil"]
    ELSE IF ~f.readable
    THEN [t |-> ZeroTime, err |-> "failed to read timestamp file"]
    ELSE [t |-> ParseRFC3339(TrimSpace(f.data)).t, err |-> "nil"]

ReadLastProcessedTimestamp(f) ==
    IF ~f.exists
    THEN [t |-> ZeroTime, err |-> "nil"]
    ELSE IF ~f.readable
    THEN [t |-> ZeroTime, err |-> "failed to read timestamp file"]
    ELSE LET timestampStr == TrimSpace(f.data)
         IN  IF timestampStr = <<>>
             THEN [t |-> ZeroTime, err |-> "nil"]
             ELSE LET p == ParseRFC3339(timestampStr)
                  IN  IF ~p.ok
                      THEN [t |-> ZeroTime, err |-> "failed to parse timestamp"]
                      ELSE [t |-> p.t, err |-> "nil"]

\* The caller's reading of (time.Time{}, nil): there is no checkpoint.
NoCheckpoint(r) == r.err = "nil" /\ IsZero(r.t)

\* The file states a run may find: no file, an unreadable file, and a
\* readable file holding the text of an instant (with or without a
\* fraction, with or without white space around it), a truncated such
\* text, nothing, or white space only.
Prefixes(s) == {SubSeq(s, 1, n) : n \in 0..Len(s)}

StampTexts == {FormatRFC3339(t) : t \in Ticks} \cup {CreatedAtOf(t) : t \in Ticks}

FileContents ==
    StampTexts
      \cup UNION {Prefixes(s) : s \in StampTexts}
      \cup {s \o <<"\n">> : s \in StampTexts}
      \cup {<<" ">> \o s : s \in StampTexts}
      \cup {<<" ">>, <<"\n">>, <<" ", "\n">>}

Files == {NoFile} \cup {FileWith(d) : d \in FileContents}
           \cup {Unreadable(d) : d \in {<<>>, FormatRFC3339(ZeroTime)}}

CheckpointInit(f) ==
    /\ file = f
    /\ wpc = "idle"
    /\ pending = <<>>
    /\ written = <<>>
    /\ prior = f
    /\ readRet = NoPendingRead
    /\ torn = <<>>

\* writeLastProcessedTimestamp(t) (main.go:367-369), first half:
\* os.WriteFile opens the file with O_WRONLY|O_CREATE|O_TRUNC, which
\* creates it or empties it (an existing file keeps its permissions).
WriteOpen(t) ==
    /\ wpc = "idle"
    /\ prior' = file
    /\ file' = [exists |-> TRUE,
                readable |-> IF file.exists THEN file.readable ELSE TRUE,
                data |-> <<>>]
    /\ pending' = FormatRFC3339(t)
    /\ written' = <<>>
    /\ readRet' = NoPendingRead
    /\ torn' = <<>>
    /\ wpc' = "writing"

\* Second half: the bytes are written and the file is closed.
WriteData(t) ==
    /\ wpc = "writing"
    /\ pending = FormatRFC3339(t)
    /\ file' = [file EXCEPT !.data = pending]
    /\ pending' = <<>>
    /\ written' = <<t>>
    /\ wpc' = "idle"
    /\ UNCHANGED <<prior, readRet, torn>>

\* The process dies between the truncation and the end of the write: any
\* proper prefix of the bytes may have reached the file.
CrashInWrite(t) ==
    /\ wpc = "writing"
    /\ pending = FormatRFC3339(t)
    /\ \E n \in 0..(Len(pending) - 1) :
         file' = [file EXCEPT !.data = SubSeq(pending, 1, n)]
    /\ pending' = <<>>
    /\ torn' = <<t>>
    /\ wpc' = "idle"
    /\ UNCHANGED <<written, prior, readRet>>

\* A call of readLastProcessedTimestamp (by a later process, after a crash).
Read ==
    /\ wpc = "idle"
    /\ readRet' = ReadLastProcessedTimestamp(file)
    /\ UNCHANGED <<file, wpc, pending, written, prior, torn>>

\* ---------------------------------------------------- scheduled runs
\* main() as the data flow documents it: readLastProcessedTimestamp,
\* fetchArticlesAfterTime, delivery, writeLastProcessedTimestamp with the
\* creation time of the newest article returned.
UUIDsOf(as) == {as[i].UUID : i \in 1..Len(as)}

NewestTime(as) ==
    CHOOSE t \in {ParseRFC3339(as[i].CreatedAt).t : i \in 1..Len(as)} :
      \A i \in 1..Len(as) : ParseRFC3339(as[i].CreatedAt).t <= t

RunsInit ==
    /\ rpc = "idle"
    /\ runs = 0
    /\ sent = <<>>

\* fetchArticlesAfterTime has returned to main: its locals are gone.
FetchReturned ==
    /\ cutoffTime' = ZeroTime
    /\ skip' = 0
    /\ allArticles' = <<>>
    /\ batch' = <<>>
    /\ pc' = "idle"
    /\ ret' = NoReturn
    /\ stopped' = ""
    /\ requests' = <<>>
    /\ pages' = <<>>
    /\ feedAtStart' = <<>>
    /\ UNCHANGED feed

\* A run begins: the checkpoint is read; an error ends the run; no
\* checkpoint makes the cutoff the start of the fallback window (any
\* instant); otherwise the cutoff is the checkpoint.
RunStart ==
    /\ rpc = "idle"
    /\ wpc = "idle"
    /\ runs < MaxRuns
    /\ LET r == ReadLastProcessedTimestamp(file)
       IN  /\ readRet' = r
           /\ IF r.err # "nil"
              THEN /\ runs' = runs + 1
                   /\ UNCHANGED <<fetchVars, rpc>>
              ELSE /\ \E c \in (IF NoCheckpoint(r) THEN Cutoffs ELSE {r.t}) :
                        FetchStart(c)
                   /\ rpc' = "fetching"
                   /\ UNCHANGED runs
    /\ UNCHANGED <<file, wpc, pending, written, prior, torn, sent>>

\* The fetch returned: on an error or an empty result the run ends and the
\* checkpoint stays; otherwise the articles are delivered and the write
\* of the newest creation time begins.
RunFinish ==
    /\ rpc = "fetching"
    /\ pc = "done"
    /\ IF ret.err # "nil" \/ ret.articles = <<>>
       THEN /\ rpc' = "idle"
            /\ runs' = runs + 1
            /\ UNCHANGED <<ckptVars, sent>>
       ELSE /\ sent' = Append(sent, UUIDsOf(ret.articles))
            /\ WriteOpen(NewestTime(ret.articles))
            /\ rpc' = "saving"
            /\ UNCHANGED runs
    /\ FetchReturned

\* The write ends, and the run with it.
RunSaved ==
    /\ rpc = "saving"
    /\ \E t \in Ticks : WriteData(t)
    /\ rpc' = "idle"
    /\ runs' = runs + 1
    /\ UNCHANGED <<fetchVars, sent>>

\* The remote service between runs: an article created now, so not before
\* any article of the feed, arrives at the head of the feed.  (Publication
\* while a call pages is Publish, under Spec.)
NotBeforeFeed(c) ==
    \A i \in 1..Len(feed) :
      (ParseRFC3339(c).ok /\ ParseRFC3339(feed[i].CreatedAt).ok)
        => ParseRFC3339(c).t >= ParseRFC3339(feed[i].CreatedAt).t

PublishNow ==
    /\ rpc = "idle"
    /\ Len(feed) < MaxFeed
    /\ \E c \in CreatedAtVals :
         /\ NotBeforeFeed(c)
         /\ feed' = <<Article(Len(feed) + 1, c)>> \o feed
    /\ UNCHANGED <<cutoffTime, skip, allArticles, batch, pc, ret, stopped,
                   requests, pages, feedAtStart>>
    /\ UNCHANGED <<ckptVars, runVars>>

\* ------------------------------------------------------ specifications
\* One call of fetchArticlesAfterTime on any feed with any cutoff.
Init ==
    /\ feed \in Feeds
    /\ feedAtStart = feed
    /\ \E c \in Cutoffs : FetchInit(c)
    /\ CheckpointInit(NoFile)
    /\ RunsInit

Next ==
    \/ FetchBatch
    \/ FetchBatchFails
    \/ HandleBatch
    \/ Publish

Spec == Init /\ [][Next]_vars

\* The call is sequential code: once started it takes its next step, the
\* request getting an answer or an error (the HTTP client has a timeout of
\* 15 s, lines 113-115), whatever the feed does meanwhile.
SpecFair ==
    /\ Spec
    /\ WF_vars(FetchBatch \/ FetchBatchFails)
    /\ WF_vars(HandleBatch)

\* The checkpoint file alone: writes (whole, or cut short by a crash) and
\* reads, from any file state.
InitCheckpoint ==
    /\ feed = <<>>
    /\ feedAtStart = <<>>
    /\ FetchInit(ZeroTime)
    /\ \E f \in Files : CheckpointInit(f)
    /\ RunsInit

NextCheckpoint ==
    \/ \E t \in Ticks : WriteOpen(t) /\ UNCHANGED <<fetchVars, runVars>>
    \/ \E t \in Ticks : WriteData(t) /\ UNCHANGED <<fetchVars, runVars>>
    \/ \E t \in Ticks : CrashInWrite(t) /\ UNCHANGED <<fetchVars, runVars>>
    \/ Read /\ UNCHANGED <<fetchVars, runVars>>

SpecCheckpoint == InitCheckpoint /\ [][NextCheckpoint]_vars

\* Scheduled runs, one after the other, on a feed that starts empty and
\* grows at its head, from any checkpoint file an earlier run may have left.
InitRuns ==
    /\ feed = <<>>
    /\ feedAtStart = <<>>
    /\ cutoffTime = ZeroTime
    /\ skip = 0
    /\ allArticles = <<>>
    /\ batch = <<>>
    /\ pc = "idle"
    /\ ret = NoReturn
    /\ stopped = ""
    /\ requests = <<>>
    /\ pages = <<>>
    /\ CheckpointInit(NoFile)
    /\ RunsInit

NextRuns ==
    \/ RunStart
    \/ FetchBatch
    \/ FetchBatchFails
    \/ HandleBatch
    \/ RunFinish
    \/ RunSaved
    \/ PublishNow

SpecRuns == InitRuns /\ [][NextRuns]_vars

\* ===================================================== properties
\* What the properties say of articles, written without the model's
\* After so that they judge it.
Parsed(a) == ParseRFC3339(a.CreatedAt)

IsNewer(a, c) == Parsed(a).ok /\ Parsed(a).t > c

IsOlder(a, c) == Parsed(a).ok /\ Parsed(a).t <= c

NewerOf(f, c) == SelectSeq(f, LAMBDA a : IsNewer(a, c))

HasOlder(b, c) == \E i \in 1..Len(b) : IsOlder(b[i], c)

\* The position of the first article of f at or before c; Len(f) + 1 when
\* there is none.
FirstOlder(f, c) ==
    IF HasOlder(f, c)
    THEN CHOOSE i \in 1..Len(f) :
           /\ IsOlder(f[i], c)
           /\ \A j \in 1..(i - 1) : ~IsOlder(f[j], c)
    ELSE Len(f) + 1

AllParseable(f) == \A i \in 1..Len(f) : Parsed(f[i]).ok

SortedNewestFirst(f) ==
    \A i, j \in 1..Len(f) :
      (i < j /\ Parsed(f[i]).ok /\ Parsed(f[j]).ok) => Parsed(f[i]).t >= Parsed(f[j]).t

RECURSIVE Concat(_)
Concat(ps) == IF ps = <<>> THEN <<>> ELSE Head(ps) \o Concat(Tail(ps))

Returned == pc = "done"

Succeeded == pc = "done" /\ ret.err = "nil"

FeedFixed == feed = feedAtStart

\* C1: every article in the accumulator, and every article returned, has
\* a creation time strictly after the cutoff.
C1_OnlyNewerArticles ==
    /\ \A i \in 1..Len(allArticles) : IsNewer(allArticles[i], cutoffTime)
    /\ \A i \in 1..Len(ret.articles) : IsNewer(ret.articles[i], cutoffTime)

\* A call that returned articles from a page that also held an article
\* created exactly at the cutoff.
C1_Witness ==
    /\ Succeeded
    /\ Len(ret.articles) > 0
    /\ \E k \in 1..Len(pages) : \E i \in 1..Len(pages[k]) :
         Parsed(pages[k][i]).ok /\ Parsed(pages[k][i]).t = cutoffTime

\* C3: on a feed that does not change during the call, is sorted newest
\* first and has only parseable timestamps, a call whose requests all
\* succeed returns exactly the articles created after the cutoff.
C3_ExactlyTheNewerArticles ==
    (Succeeded /\ FeedFixed /\ SortedNewestFirst(feed) /\ AllParseable(feed))
      => ret.articles = NewerOf(feed, cutoffTime)

\* Such a call whose result spans more than one page.
C3_Witness ==
    /\ Succeeded /\ FeedFixed /\ SortedNewestFirst(feed) /\ AllParseable(feed)
    /\ Len(ret.articles) > batchSize
    /\ Len(ret.articles) < Len(feed)

\* C4 as stated: whenever fewer than batchSize articles of a fixed feed
\* are newer than the cutoff, exactly those are returned, in feed order,
\* after exactly one request.  (Read on feeds whose parseable articles
\* are sorted newest first, the order the feed is documented to have.)
FewNewer == Len(NewerOf(feed, cutoffTime)) < batchSize

C4_AsStated ==
    (Succeeded /\ FeedFixed /\ SortedNewestFirst(feed) /\ FewNewer)
      => /\ ret.articles = NewerOf(feed, cutoffTime)
         /\ Len(requests) = 1

\* C4 amended: when fewer than batchSize articles come ahead of the first
\* article at or before the cutoff (the whole feed when there is none;
\* unparseable articles count), and no article newer than the cutoff
\* comes after an article at or before it, exactly the newer articles
\* are returned, in feed order, after exactly one request.
FewAheadOfOlder ==
    /\ FirstOlder(feed, cutoffTime) - 1 < batchSize
    /\ \A j \in 1..Len(feed) :
         IsNewer(feed[j], cutoffTime) => j < FirstOlder(feed, cutoffTime)

C4_FewAheadOfOlder ==
    (Succeeded /\ FeedFixed /\ FewAheadOfOlder)
      => /\ ret.articles = NewerOf(feed, cutoffTime)
         /\ Len(requests) = 1

\* Such a call that returned articles, on a feed that holds an older and
\* an unparseable article, or on a short feed with no older article.
C4_Witness ==
    /\ Succeeded /\ FeedFixed /\ FewAheadOfOlder
    /\ Len(ret.articles) > 0
    /\ \/ HasOlder(feed, cutoffTime) /\ ~AllParseable(feed)
       \/ ~HasOlder(feed, cutoffTime)

\* C5: a page that holds an article at or before the cutoff is the last
\* page requested, and the call returns without error what was
\* accumulated: the newer articles received ahead of that article.
AheadOfOlder(ps, c) ==
    LET last == ps[Len(ps)]
        earlier == Concat(SubSeq(ps, 1, Len(ps) - 1))
    IN  earlier \o SubSeq(last, 1, FirstOlder(last, c) - 1)

C5_OlderArticleEndsPaging ==
    \A k \in 1..Len(pages) :
      HasOlder(pages[k], cutoffTime)
        => /\ k = Len(pages)
           /\ Len(requests) = k
           /\ pc # "fetch"
           /\ Returned => /\ ret.err = "nil"
                          /\ ret.articles
                               = NewerOf(AheadOfOlder(pages, cutoffTime), cutoffTime)

\* A full first page with newer articles ahead of an older one, returned
\* after one request.
C5_Witness ==
    /\ Returned
    /\ Len(pages) = 1
    /\ Len(pages[1]) = batchSize
    /\ HasOlder(pages[1], cutoffTime)
    /\ Len(ret.articles) = batchSize - 1

\* C6: after a page of exactly batchSize articles, all after the cutoff,
\* requested at offset skip, the call is about to request at offset
\* skip + batchSize; the offsets requested are 0, batchSize,
\* 2*batchSize, ... in order.
FullAndNewer(b, c) ==
    Len(b) = batchSize /\ \A i \in 1..Len(b) : IsNewer(b[i], c)

C6_Offsets ==
    \A k \in 1..Len(requests) : requests[k] = (k - 1) * batchSize

C6_NextPageRequested ==
    /\ [](C6_Offsets)
    /\ [][(pc = "scan" /\ FullAndNewer(batch, cutoffTime) /\ pc' # "scan")
            => (pc' = "fetch" /\ skip' = skip + batchSize)]_vars
    /\ [][(pc = "fetch" /\ pc' # "fetch")
            => requests' = Append(requests, skip)]_vars

\* Three requests, the first two answered by full pages of newer articles.
C6_Witness ==
    /\ Len(requests) >= 3
    /\ FullAndNewer(pages[1], cutoffTime)
    /\ FullAndNewer(pages[2], cutoffTime)

\* C7: an empty first page gives an empty result without error after
\* exactly one request; and a call none of whose requests failed returns
\* without error, also when it found nothing.
C7_NothingFoundIsSuccess ==
    /\ (Returned /\ Len(pages) >= 1 /\ pages[1] = <<>>)
         => (ret = [articles |-> <<>>, err |-> "nil"] /\ Len(requests) = 1)
    /\ (Returned /\ Len(requests) = Len(pages)) => ret.err = "nil"

\* A call answered by an empty first page.
C7_Witness ==
    /\ Returned
    /\ Len(pages) >= 1
    /\ pages[1] = <<>>
    /\ ret.articles = <<>>

\* C8: when a request fails the call returns an error and no articles,
\* whatever it had accumulated, and the failed request is the last one.
C8_FailureReturnsNothing ==
    Len(requests) > Len(pages)
      => /\ Returned
         /\ ret.err \in FetchErrors
         /\ ret.articles = <<>>
         /\ Len(requests) = Len(pages) + 1

\* A request that failed after earlier pages had put articles in the
\* accumulator.
C8_Witness ==
    /\ Returned
    /\ ret.err \in FetchErrors
    /\ Len(pages) >= 1
    /\ Len(allArticles) > 0

\* C2 as stated: no article is returned by more than one run, whatever
\* the creation times, fractional seconds included.
C2_NoArticleReturnedTwice ==
    \A i, j \in 1..Len(sent) : i < j => sent[i] \cap sent[j] = {}

\* C9 as stated: after writeLastProcessedTimestamp(T) has written the
\* file (whatever it held before, if it could be read or did not exist),
\* readLastProcessedTimestamp returns exactly T and no error.
C9_RoundTrip ==
    (written # <<>> /\ readRet.err # "pending"
       /\ (prior.readable \/ ~prior.exists))
      => readRet = [t |-> written[1], err |-> "nil"]

\* C10 as stated: no checkpoint and no error when the file does not
\* exist; an error whenever the file exists and is unreadable or its
\* content (white space around it aside) does not parse as a timestamp.
Corrupt(f) ==
    f.exists /\ (~f.readable \/ ~ParseRFC3339(TrimSpace(f.data)).ok)

Blank(f) == f.exists /\ f.readable /\ TrimSpace(f.data) = <<>>

Handled(k) == k < Len(pages) \/ pc # "scan"

InSeq(a, s) == \E i \in 1..Len(s) : s[i] = a

\* Position j of page b comes after an unparseable article and is not
\* preceded by an article at or before c.
AfterUnparseable(b, j, c) ==
    /\ \E i \in 1..(j - 1) : ~Parsed(b[i]).ok
    /\ \A i \in 1..(j - 1) : ~IsOlder(b[i], c)

\* C11: an article whose createdAt cannot be parsed is never in the
\* accumulator or the result, and it does not end the scan of its page:
\* every later article of the page that is newer than the cutoff, and not
\* preceded by an article at or before the cutoff, has been appended.
C11_UnparseableIsSkipped ==
    /\ \A i \in 1..Len(allArticles) : Parsed(allArticles[i]).ok
    /\ \A i \in 1..Len(ret.articles) : Parsed(ret.articles[i]).ok
    /\ \A k \in 1..Len(pages) : \A j \in 1..Len(pages[k]) :
         (Handled(k) /\ AfterUnparseable(pages[k], j, cutoffTime)
            /\ IsNewer(pages[k][j], cutoffTime))
           => InSeq(pages[k][j], allArticles)

\* A call that returned an article standing behind an unparseable one in
\* its page.
C11_Witness ==
    /\ Succeeded
    /\ \E k \in 1..Len(pages) : \E j \in 1..Len(pages[k]) :
         /\ AfterUnparseable(pages[k], j, cutoffTime)
         /\ IsNewer(pages[k][j], cutoffTime)
         /\ InSeq(pages[k][j], ret.articles)

\* s is t with some of its elements left out, the order kept.
RECURSIVE IsSubseq(_, _)
IsSubseq(s, t) ==
    IF s = <<>> THEN TRUE
    ELSE IF t = <<>> THEN FALSE
    ELSE IF Head(s) = Head(t) THEN IsSubseq(Tail(s), Tail(t))
    ELSE IsSubseq(s, Tail(t))

\* C12: at every step the accumulator, and at the end the result, is a
\* subsequence of the pages fetched so far put end to end in the order of
\* their requests: articles keep the order in which the feed delivered
\* them.
C12_FeedOrderKept ==
    /\ IsSubseq(allArticles, Concat(pages))
    /\ IsSubseq(ret.articles, Concat(pages))

\* A call that returned articles of two pages, with an article between
\* them left out.
C12_Witness ==
    /\ Succeeded
    /\ Len(pages) >= 2
    /\ Len(ret.articles) >= 2
    /\ InSeq(ret.articles[1], pages[1])
    /\ \E i \in 2..Len(ret.articles) :
         InSeq(ret.articles[i], pages[2]) /\ ~InSeq(ret.articles[i], pages[1])
    /\ \E i \in 1..Len(pages[1]) : ~InSeq(pages[1][i], ret.articles)

Failed == pc = "done" /\ stopped = "failed"

\* C13 as stated: the error returned for a failed page request carries
\* the skip offset of that request.
C13_AsStated == Failed => "skip" \in ErrorCarries(ret.err)

\* C13, amended: the error returned for a failed page request is the
\* request's own error, which names the step that failed and carries its
\* cause or the status code, not the skip offset; the failed request is
\* the last one issued, at offset batchSize times the number of pages
\* fetched before it.
C13_ErrorNamesStepOnly ==
    Failed =>
      /\ ret.err \in FetchErrors
      /\ "skip" \notin ErrorCarries(ret.err)
      /\ requests[Len(requests)] = skip
      /\ skip = batchSize * Len(pages)

\* A call that failed on its second request, on a status code.
C13_Witness ==
    /\ Failed
    /\ Len(requests) = 2
    /\ requests[2] > 0
    /\ ret.err = "unexpected status code"

\* The call is between its first request and its return.
InCall == pc \in {"fetch", "scan"}

\* C14: no step of fetchArticlesAfterTime changes the checkpoint file, and
\* the cutoff it compares with is the same at every page of the call.
C14_CheckpointAndCutoffUntouched ==
    [][InCall => (file' = file /\ cutoffTime' = cutoffTime)]_vars

\* A later run's call that took two requests and returned articles: the
\* file still reads as it did when the run began, which is the cutoff.
C14_Witness ==
    /\ rpc = "fetching"
    /\ Succeeded
    /\ Len(requests) >= 2
    /\ ret.articles # <<>>
    /\ file.exists
    /\ ReadLastProcessedTimestamp(file) = readRet
    /\ readRet = [t |-> cutoffTime, err |-> "nil"]

\* The articles of page b that the scan appends: those newer than c that
\* stand ahead of the first article of b at or before c.
AppendedFrom(b, c) == NewerOf(SubSeq(b, 1, FirstOlder(b, c) - 1), c)

\* Page b holds an article newer than c behind one at or before c.
NewerBehindOlder(b, c) ==
    \E i, j \in 1..Len(b) : i < j /\ IsOlder(b[i], c) /\ IsNewer(b[j], c)

\* C15 as stated: the scan of a page appends every article of the page
\* that is newer than the cutoff, those behind an article at or before the
\* cutoff included.
C15_AsStated ==
    [][(pc = "scan" /\ pc' # "scan")
         => allArticles' = allArticles \o NewerOf(batch, cutoffTime)]_vars

\* C15, amended: the scan of a page appends the articles newer than the
\* cutoff that stand ahead of the page's first article at or before the
\* cutoff, and stops there: the articles behind it are not examined, and
\* a newer one among them is not appended.
C15_ScanStopsAtFirstOlder ==
    [][(pc = "scan" /\ pc' # "scan")
         => allArticles' = allArticles \o AppendedFrom(batch, cutoffTime)]_vars

\* A call that returned without an article newer than the cutoff that its
\* last page held behind an older one.
C15_Witness ==
    /\ Succeeded
    /\ stopped = "older"
    /\ NewerBehindOlder(pages[Len(pages)], cutoffTime)
    /\ \E j \in 1..Len(pages[Len(pages)]) :
         /\ IsNewer(pages[Len(pages)][j], cutoffTime)
         /\ ~InSeq(pages[Len(pages)][j], ret.articles)

\* A write was cut short by a crash, and the file has been read since.
ReadAfterCrash == torn # <<>> /\ readRet.err # "pending"

\* The file before the write held a checkpoint, and which.
PriorRead == ReadLastProcessedTimestamp(prior)

PriorHeld == PriorRead.err = "nil" /\ ~IsZero(PriorRead.t)

\* C16: after a crash in writeLastProcessedTimestamp(T), a read does not
\* return a parsed timestamp other than T and the value the file held
\* before, and does not report "no checkpoint" for a file that held a
\* checkpoint before.  (The second part fails: os.WriteFile truncates
\* first, and a crash before any byte is written leaves an empty file,
\* which reads as "no checkpoint" without an error.)
C16_AsStated ==
    ReadAfterCrash =>
      /\ (readRet.err = "nil" /\ ~IsZero(readRet.t))
           => (readRet.t = torn[1] \/ (PriorHeld /\ readRet.t = PriorRead.t))
      /\ PriorHeld => ~NoCheckpoint(readRet)

\* The terminal states of a call, each with the condition that ends it.
EndedOn ==
    /\ stopped \in {"empty", "short", "older", "failed"}
    /\ stopped = "failed" <=> ret.err # "nil"
    /\ stopped = "empty" => pages[Len(pages)] = <<>>
    /\ stopped = "short" =>
         /\ Len(pages[Len(pages)]) \in 1..(batchSize - 1)
         /\ ~HasOlder(pages[Len(pages)], cutoffTime)
    /\ stopped = "older" => HasOlder(pages[Len(pages)], cutoffTime)

\* C17: on a finite feed a call ends, in exactly one of its terminal
\* states (an empty or short page, an article at or before the cutoff, a
\* failed request); once ended it issues no request and stays ended; and
\* it never issues more requests than the feed has pages, plus one.
C17_CallTerminates ==
    /\ <>(pc = "done")
    /\ [](pc = "done" <=> stopped # "")
    /\ [](pc = "done" => EndedOn)
    /\ [][pc = "done" => (pc' = "done" /\ requests' = requests
                           /\ stopped' = stopped /\ ret' = ret)]_vars
    /\ [](Len(requests) <= (Len(feed) \div batchSize) + 1)

\* A call that ended on an empty page, after as many requests as the feed
\* has pages, plus one, the feed having grown meanwhile.
C17_Witness ==
    /\ pc = "done"
    /\ stopped = "empty"
    /\ Len(requests) = (Len(feed) \div batchSize) + 1
    /\ Len(requests) >= 3
    /\ ~FeedFixed

\* Page b is full, holds an unparseable article, and none at or before c.
FullWithUnparseable(b, c) ==
    /\ Len(b) = batchSize
    /\ \E i \in 1..Len(b) : ~Parsed(b[i]).ok
    /\ ~HasOlder(b, c)

\* C18: an unparseable article does not count as crossing the cutoff.
\* After a full page whose articles are all newer than the cutoff or
\* unparseable, the call goes on to request the next page, and the newer
\* articles of that page (ahead of its first one at or before the cutoff)
\* are taken up as well.
C18_UnparseableDoesNotEndPaging ==
    /\ \A k \in 1..Len(pages) :
         (Handled(k) /\ FullWithUnparseable(pages[k], cutoffTime))
           => /\ stopped \notin {"older", "short", "empty"} \/ k < Len(pages)
              /\ pc = "fetch" => skip >= batchSize * k
    /\ \A k \in 2..Len(pages) :
         (Handled(k) /\ FullWithUnparseable(pages[k - 1], cutoffTime))
           => \A j \in 1..Len(pages[k]) :
                (j < FirstOlder(pages[k], cutoffTime)
                   /\ IsNewer(pages[k][j], cutoffTime))
                  => InSeq(pages[k][j], allArticles)

\* A call that went past a full page of unparseable articles only and
\* returned an article of the page after it.
C18_Witness ==
    /\ Succeeded
    /\ Len(pages) >= 2
    /\ \A i \in 1..Len(pages[1]) : ~Parsed(pages[1][i]).ok
    /\ Len(pages[1]) = batchSize
    /\ \E j \in 1..Len(pages[2]) : InSeq(pages[2][j], ret.articles)

\* C19: within one call no article identifier appears twice in the
\* accumulator or in the returned sequence, also when articles are
\* published at the head of the feed between two page requests; judged
\* on feeds that are sorted newest first and parse throughout.  (It
\* fails: the next request's offset counts from the new head, so the last
\* articles of the previous page come again, and nothing removes them.)
C19_NoIdentifierTwice ==
    (AllParseable(feed) /\ SortedNewestFirst(feed)) =>
      /\ \A i, j \in 1..Len(allArticles) :
           i < j => allArticles[i].UUID # allArticles[j].UUID
      /\ \A i, j \in 1..Len(ret.articles) :
           i < j => ret.articles[i].UUID # ret.articles[j].UUID

====
